---- MODULE Spec2Model ----
(***************************************************************************)
(* A model of arrow/ipc/writer.go: the stream Writer (NewWriter, Write,    *)
(* Close, start over the swriter payload writer) and the recordEncoder     *)
(* (Encode, visit, getZeroBasedValueOffsets, newTruncatedBitmap,           *)
(* needTruncate).                                                          *)
(*                                                                         *)
(* Buffers are reference counted; the pool holds one buffer of every byte  *)
(* length 0..MaxBufLen, so that arrays whose buffers have the same length  *)
(* share a buffer.  A Go panic is modelled as the outcome "panic", after   *)
(* which the process takes no further step.                                *)
(***************************************************************************)
EXTENDS Integers, Sequences, FiniteSets, TLC

\* ------------------------------------------------------------------ bounds

\* Largest row count of a generated array.
MaxRows == 2
\* The depth budget Writer.Write gives its encoder, and the largest one an
\* encoder is constructed with.  The program sets kMaxNestingDepth outside
\* writer.go (64); the model keeps it small so that the records nested
\* beyond it stay small.
kMaxNestingDepth == 3
\* Number of Write/Close calls made on one Writer.
MaxCalls == 3
\* Number of sink writes that may fail during one Writer's life.
MaxSinkFailures == 1

\* --------------------------------------------------------- program constants

\* The nil *memory.Buffer.
NIL == 0
kArrowAlignment == 8
MaxInt32 == 2147483647

\* ------------------------------------------------------------ alignment math

Min(a, b) == IF a < b THEN a ELSE b
Max(a, b) == IF a < b THEN b ELSE a

\* bitutil.CeilByte64: (size + 7) &^ 7
CeilByte64(size) == ((size + 7) \div 8) * 8

\* bitutil.IsMultipleOf8
IsMultipleOf8(n) == n % 8 = 0

\* bitutil.BytesForBits: (bits + 7) / 8
BytesForBits(bits) == (bits + 7) \div 8

\* paddedLength(x, alignment): x rounded up to the next multiple of alignment
paddedLength(x, alignment) == ((x + alignment - 1) \div alignment) * alignment

\* ------------------------------------------------------------------ buffers

\* Bytes by which an oversized buffer exceeds what its array needs.
SlackBytes == kArrowAlignment

\* The longest buffer of the pool: the int32 offsets of MaxRows+1 physical
\* rows, oversized.
MaxBufLen == 4 * (MaxRows + 2) + SlackBytes

\* memory.Buffer identities; NIL is none of them.
Buffers == 1 .. (MaxBufLen + 1)

\* The buffer of the pool that is n bytes long.
BufOfLen(n) == n + 1

\* memory.Buffer.Len
BufLen(b) == b - 1

\* Every buffer starts with the one hold its source arrays have on it.
InitRefs == [b \in Buffers |-> 1]

\* ------------------------------------------------------------------- arrays

\* An array.Interface node: its data type, Len(), NullN(), Data().Offset(),
\* Data().Buffers() (buffers[k+1] is Go's Buffers()[k]), its children, and,
\* for an offsets-bearing type, the int32 contents of its offsets buffer.
\* When an array has nulls they are its first rows.
Arr(t, n, nulls, off, bufs, kids, offs) ==
  [type |-> t, len |-> n, nulls |-> nulls, offset |-> off,
   buffers |-> bufs, children |-> kids, offsets |-> offs]

FixedWidthTypes == {"int32"}
BitWidth(t) == 32
ListTypes == {"list", "fixed_size_list"}
NestedTypes == {"struct"} \cup ListTypes

\* The validity bitmap of an array over phys physical rows.
BitmapBuf(phys, slack) == BufOfLen(BytesForBits(phys) + slack)

\* The offsets <<0, 1, ..., phys>> of phys one-byte values.
UnitOffsets(phys) == [i \in 1 .. (phys + 1) |-> i - 1]

\* A leaf array of n rows that views rows off .. off+n-1 of its buffers,
\* which are slack bytes longer than those rows need.
Leaf(t, n, nulls, off, slack) ==
  LET phys == off + n
      validity == BitmapBuf(phys, slack)
  IN CASE t = "bool" ->
            Arr(t, n, nulls, off, <<validity, BitmapBuf(phys, slack)>>, <<>>, <<>>)
       [] t \in FixedWidthTypes ->
            Arr(t, n, nulls, off,
                <<validity, BufOfLen((BitWidth(t) \div 8) * phys + slack)>>, <<>>, <<>>)
       [] t \in {"binary", "utf8"} ->
            Arr(t, n, nulls, off,
                <<validity, BufOfLen(4 * (phys + 1)), BufOfLen(phys + slack)>>,
                <<>>, UnitOffsets(phys))

\* array.NewNull(n): every row is null and there is no validity bitmap.
NullLeaf(n) == Arr("null", n, n, 0, <<NIL>>, <<>>, <<>>)

\* An array of a type the encoder does not know.
UnknownLeaf == Arr("unknown", 1, 0, 0, <<BitmapBuf(1, 0), BufOfLen(4)>>, <<>>, <<>>)

\* A zero-row array built without buffers.
EmptyNoBuffers(t) ==
  IF t \in {"binary", "utf8"}
  THEN Arr(t, 0, 0, 0, <<NIL, NIL, NIL>>, <<>>, <<>>)
  ELSE Arr(t, 0, 0, 0, <<NIL, NIL>>, <<>>, <<>>)

\* A struct array over its field arrays.
StructOf(kids, nulls) ==
  Arr("struct", kids[1].len, Min(nulls, kids[1].len), 0,
      <<BitmapBuf(kids[1].len, 0)>>, kids, <<>>)

\* A list (or fixed-size list) array of n rows whose offsets run from base
\* to last over the child array.
ListOf(t, child, n, nulls, base, last) ==
  Arr(t, n, Min(nulls, n), 0,
      <<BitmapBuf(n, 0), BufOfLen(4 * (n + 1))>>, <<child>>,
      [i \in 1 .. (n + 1) |-> IF i = n + 1 /\ n > 0 THEN last ELSE base])

RECURSIVE StructChain(_, _)
\* k struct levels around array a; the structs have a null row.
StructChain(k, a) == IF k = 0 THEN a ELSE StructOf(<<StructChain(k - 1, a)>>, 1)

RECURSIVE ListChain(_, _)
\* k list levels around array a, each list one row holding all of its child.
ListChain(k, a) ==
  IF k = 0 THEN a
  ELSE LET c == ListChain(k - 1, a) IN ListOf("list", c, 1, 0, 0, c.len)

LeafTypes == {"bool", "int32", "binary", "utf8"}

Leaves ==
  {Leaf(t, n, Min(k, n), off, s) : t \in LeafTypes, n \in 0 .. MaxRows, k \in 0 .. 1,
                           off \in 0 .. 1, s \in {0, SlackBytes}}

\* The leaves used as children of nested arrays.
Kids ==
  {Leaf("int32", MaxRows, 0, 0, 0), Leaf("int32", 1, 1, 0, 0),
   Leaf("utf8", MaxRows, 1, 0, 0), Leaf("bool", MaxRows, 0, 0, 0),
   Leaf("int32", 1, 0, 0, SlackBytes), NullLeaf(0)}

Structs ==
  {StructOf(<<a>>, k) : a \in Kids, k \in 0 .. 1}
    \cup UNION {{StructOf(<<a, b>>, 0) : b \in {c \in Kids : c.len = a.len}} : a \in Kids}

\* The lists over child c whose offsets start at base.
ListsOver(c, base) ==
  {ListOf(t, c, n, k, base, last) :
     t \in ListTypes, n \in 0 .. 1, k \in 0 .. 1,
     last \in {l \in (c.len - 1) .. c.len : l >= base}}

Lists == UNION {ListsOver(c, base) : c \in Kids, base \in 0 .. 1}

\* Two levels of nesting.
Nested2 ==
  {StructOf(<<a>>, 0) : a \in {StructOf(<<c>>, 1) : c \in Kids}}
    \cup {StructOf(<<ListOf("list", c, 1, 0, 0, c.len)>>, 0) : c \in Kids}
    \cup {ListOf(t, StructOf(<<c>>, 0), 1, 1, 0, c.len) : t \in ListTypes, c \in Kids}

\* Struct and list chains around the largest depth budget.
Chains ==
  {StructChain(k, Leaf("int32", 1, 1, 0, 0)) :
     k \in (kMaxNestingDepth - 1) .. (kMaxNestingDepth + 1)}
    \cup {ListChain(k, Leaf("int32", 1, 0, 0, 0)) :
             k \in (kMaxNestingDepth - 1) .. (kMaxNestingDepth + 1)}

Arrays ==
  Leaves \cup {NullLeaf(n) : n \in 0 .. MaxRows} \cup {UnknownLeaf}
    \cup {EmptyNoBuffers(t) : t \in {"int32", "utf8"}}
    \cup Structs \cup Lists \cup Nested2 \cup Chains

\* ------------------------------------------------------------ recordEncoder

\* F applied to the value of v, which is computed once.
With(v, F(_)) == CHOOSE y \in {F(x) : x \in {v}} : TRUE

\* The recordEncoder together with the payload it fills and the reference
\* counts it changes: fields and meta, the payload's body and size, the
\* depth budget (and maxDepth, what it was at first), start and allow64b;
\* status is "ok" until an error is
\* returned ("errMaxRecursion", "errBigArray") or a panic is raised
\* ("panic", with msg).  visited and tags record, for each fieldMetadata and
\* each body entry, the node (its path from the record) it was pushed for,
\* and phys the Data().Offset() and depths the depth budget of each node
\* visited; truncs records each
\* needTruncate call on a value buffer with what followed it, zeroBased
\* each getZeroBasedValueOffsets call;
\* retains counts the Retain calls; slicesMade and slicesReleased hold the
\* paths of the child slices made and released, unsliced those of the list
\* children visited as they are.
newRecordEncoder(refs, startOffset, maxDepth, allow64b) ==
  [fields |-> <<>>, meta |-> <<>>, body |-> <<>>, size |-> 0,
   header |-> [nrows |-> 0, size |-> 0, fields |-> <<>>, meta |-> <<>>],
   depth |-> maxDepth, maxDepth |-> maxDepth,
   start |-> startOffset, allow64b |-> allow64b,
   refs |-> refs, status |-> "ok", msg |-> "",
   visited |-> <<>>, phys |-> <<>>, tags |-> <<>>, retains |-> 0,
   truncs |-> <<>>, zeroBased |-> <<>>, depths |-> <<>>,
   slicesMade |-> <<>>, slicesReleased |-> <<>>, unsliced |-> <<>>]

Fail(e, err) == [e EXCEPT !.status = err]

Panic(e, msg) == [e EXCEPT !.status = "panic", !.msg = msg]

\* p.body = append(p.body, buf), for the node at path
Push(e, buf, path, slot) ==
  [e EXCEPT !.body = Append(@, buf),
            !.tags = Append(@, [path |-> path, slot |-> slot])]

\* memory.Buffer.Retain; on a nil buffer the method dereferences nil.
Retain(e, buf) ==
  IF buf = NIL THEN Panic(e, "nil pointer dereference")
  ELSE [e EXCEPT !.refs[buf] = @ + 1, !.retains = @ + 1]

\* needTruncate (lines 418-423)
needTruncate(offset, buf, minLength) ==
  IF buf = NIL THEN FALSE
  ELSE offset # 0 \/ minLength < BufLen(buf)

\* newTruncatedBitmap (lines 401-416): the encoder after the call and the
\* buffer returned.  A non-nil input is retained and returned as it is; on a
\* nil input line 409 panics, or reads input.Len().
newTruncatedBitmap(e, offset, length, input) ==
  IF input # NIL
  THEN [e |-> Retain(e, input), buf |-> input]
  ELSE IF offset # 0
  THEN [e |-> Panic(e, "not implemented"), buf |-> NIL]
  ELSE [e |-> Panic(e, "nil pointer dereference"), buf |-> NIL]

\* A getZeroBasedValueOffsets call as zeroBased records it: the array's
\* physical offset and offsets buffer, the buffer returned, and the Retain
\* calls between encoder e0, which made the call, and e1, which it left.
zeroBasedCall(e0, e1, arr, returned) ==
  [e1 EXCEPT !.zeroBased =
     Append(@, [offset |-> arr.offset, input |-> arr.buffers[2],
                returned |-> returned, retained |-> e1.retains - e0.retains,
                status |-> e1.status, msg |-> e1.msg])]

\* getZeroBasedValueOffsets (lines 384-394): the encoder after the call and
\* the offsets buffer returned.
getZeroBasedValueOffsets(e, arr) ==
  IF arr.offset # 0
  THEN [e |-> zeroBasedCall(e, Panic(e, "not implemented offset"), arr, NIL),
        buf |-> NIL]
  ELSE [e |-> zeroBasedCall(e, Retain(e, arr.buffers[2]), arr, arr.buffers[2]),
        buf |-> arr.buffers[2]]

\* visit, lines 207-211: the fieldMetadata of the node
visitField(e, arr, path) ==
  [e EXCEPT !.fields = Append(@, [Len |-> arr.len, Nulls |-> arr.nulls, Offset |-> 0]),
            !.visited = Append(@, path),
            !.phys = Append(@, arr.offset),
            !.depths = Append(@, e.depth)]

\* Mutant of visitValidity: the bitmap is pushed whatever the null count.
visitValidityAlways(e, arr, path) ==
  With(newTruncatedBitmap(e, arr.offset, arr.len, arr.buffers[1]),
       LAMBDA r : IF r.e.status # "ok" THEN r.e
                  ELSE Push(r.e, r.buf, path, "validity"))

\* visit, lines 213-220: the validity entry of the node
visitValidity(e, arr, path) ==
  IF arr.nulls = 0
  THEN Push(e, NIL, path, "validity")
  ELSE With(newTruncatedBitmap(e, arr.offset, arr.len, arr.buffers[1]),
            LAMBDA r : IF r.e.status # "ok" THEN r.e
                       ELSE Push(r.e, r.buf, path, "validity"))

\* Mutant of visitNull: no placeholder is pushed for a Null array.
visitNullNothing(e, arr, path) == e

\* visit, lines 223-224
visitNull(e, arr, path) == Push(e, NIL, path, "placeholder")

\* visit, lines 226-228
visitBoolean(e, arr, path) ==
  With(newTruncatedBitmap(e, arr.offset, arr.len, arr.buffers[2]),
       LAMBDA r : IF r.e.status # "ok" THEN r.e
                  ELSE Push(r.e, r.buf, path, "values"))

\* visit, lines 236-242: the value buffer is retained and appended
retainValues(e, values, path) ==
  With(Retain(e, values),
       LAMBDA e1 : IF e1.status # "ok" THEN e1 ELSE Push(e1, values, path, "values"))

\* The needTruncate call on a value buffer (lines 237, 259, 282) as truncs
\* records it: its arguments and result, and the Retain calls and body
\* entries between encoder e0, which made the call, and e1, with which the
\* case ended.
truncated(e0, e1, offset, buf, minLength) ==
  [e1 EXCEPT !.truncs =
     Append(@, [offset |-> offset, buf |-> buf, minLength |-> minLength,
                need |-> needTruncate(offset, buf, minLength),
                retained |-> e1.retains - e0.retains,
                pushed |-> SubSeq(e1.body, Len(e0.body) + 1, Len(e1.body))])]

\* visit, lines 230-242
visitFixedWidth(e, arr, path) ==
  LET values == arr.buffers[2]
      typeWidth == BitWidth(arr.type) \div 8
      minLength == paddedLength(arr.len * typeWidth, kArrowAlignment)
  IN With(IF needTruncate(arr.offset, values, minLength)
          THEN Panic(e, "not implemented")
          ELSE retainValues(e, values, path),
          LAMBDA e1 : truncated(e, e1, arr.offset, values, minLength))

\* array.String.ValueOffset(i): valueOffsets[data.offset + i]
ValueOffset(arr, i) == arr.offsets[arr.offset + i + 1]

\* len(array.Binary.ValueBytes()):
\* valueBytes[valueOffsets[offset] : valueOffsets[offset + length]]
ValueBytesLen(arr) ==
  arr.offsets[arr.offset + arr.len + 1] - arr.offsets[arr.offset + 1]

\* visit, lines 258-265 and 281-288: the value bytes are retained, then
\* the offsets and the value bytes are appended
retainOffsetsAndValues(e, arr, voffsets, totalDataBytes, path) ==
  With(IF needTruncate(arr.offset, arr.buffers[3], totalDataBytes)
       THEN Panic(e, "not implemented")
       ELSE With(Retain(e, arr.buffers[3]),
                 LAMBDA e1 : IF e1.status # "ok" THEN e1
                             ELSE Push(Push(e1, voffsets, path, "offsets"),
                                       arr.buffers[3], path, "values")),
       LAMBDA e2 : truncated(e, e2, arr.offset, arr.buffers[3], totalDataBytes))

\* visit, lines 244-265
visitBinary(e, arr, path) ==
  With(getZeroBasedValueOffsets(e, arr),
       LAMBDA r :
         IF r.e.status # "ok" THEN r.e
         ELSE retainOffsetsAndValues(
                r.e, arr, r.buf,
                IF r.buf # NIL THEN ValueBytesLen(arr) ELSE 0, path))

\* visit, lines 267-288
visitString(e, arr, path) ==
  With(getZeroBasedValueOffsets(e, arr),
       LAMBDA r :
         IF r.e.status # "ok" THEN r.e
         ELSE retainOffsetsAndValues(
                r.e, arr, r.buf,
                IF r.buf # NIL THEN ValueOffset(arr, arr.len) - ValueOffset(arr, 0)
                ELSE 0, path))

\* array.NewSlice(arr, i, j): the view of rows i .. j-1.
NewSlice(arr, i, j) ==
  [arr EXCEPT !.len = j - i, !.offset = @ + i,
              !.nulls = Max(0, Min(j, arr.nulls) - i)]

\* array.NewSlice panics on a range outside the array.
SliceInRange(arr, i, j) == i >= 0 /\ i <= j /\ j <= arr.len

RECURSIVE visit(_, _, _)

RECURSIVE visitStructFields(_, _, _, _)
\* visit, lines 293-298: the fields of a struct from field i on
visitStructFields(e, arr, i, path) ==
  IF i > Len(arr.children) THEN e
  ELSE With(visit(e, arr.children[i], Append(path, i)),
            LAMBDA e1 : IF e1.status # "ok" THEN e1
                        ELSE visitStructFields(e1, arr, i + 1, path))

\* Mutant of leaveChildren: the depth budget is not given back.
leaveChildrenDeeper(e) == e

\* visit, lines 299, 337 and 375: w.depth++ unless the visit returned early
leaveChildren(e) == IF e.status # "ok" THEN e ELSE [e EXCEPT !.depth = @ + 1]

\* visit, lines 291, 309 and 347: w.depth--
enterChildren(e) == [e EXCEPT !.depth = @ - 1]

\* visit, lines 290-299
visitStruct(e, arr, path) ==
  With(visitStructFields(enterChildren(e), arr, 1, path), leaveChildren)

\* Mutant of releaseSlice: the slice is released after the visit of the
\* child returned without an error, not by a deferred call.
releaseSliceOnSuccess(e, path) ==
  IF e.status # "ok" THEN e ELSE [e EXCEPT !.slicesReleased = Append(@, path)]

\* visit, lines 316-320: the deferred release of the child slice at path
releaseSlice(e, path) == [e EXCEPT !.slicesReleased = Append(@, path)]

\* visit, lines 322-337 (and 360-375): the child values are sliced to
\* values_offset .. values_length and visited
visitValues(e, values, values_offset, values_length, mustSlice, path) ==
  IF ~mustSlice
  THEN With(visit([e EXCEPT !.unsliced = Append(@, Append(path, 1))],
                  values, Append(path, 1)),
            leaveChildren)
  ELSE IF ~SliceInRange(values, values_offset, values_length)
  THEN Panic(e, "index out of range")
  ELSE With(visit([e EXCEPT !.slicesMade = Append(@, Append(path, 1))],
                  NewSlice(values, values_offset, values_length),
                  Append(path, 1)),
            LAMBDA e1 : leaveChildren(releaseSlice(e1, Append(path, 1))))

\* visit, lines 301-337 (List) and 339-375 (FixedSizeList), which are the
\* same code.  The deferred release of the child slice runs on every exit
\* after the slice was made.
visitListValues(e, arr, path) ==
  With(getZeroBasedValueOffsets(e, arr),
       LAMBDA r :
         LET hasOffsets == r.buf # NIL
             values_offset == IF hasOffsets THEN arr.offsets[1] ELSE 0
             values_length ==
               IF hasOffsets THEN arr.offsets[arr.len + 1] - values_offset ELSE 0
             mustSlice ==
               Len(arr.offsets) # 0 \/ values_length < arr.children[1].len
         IN IF r.e.status # "ok" THEN r.e
            ELSE With(enterChildren(Push(r.e, r.buf, path, "offsets")),
                      LAMBDA e1 :
                        IF hasOffsets /\ Len(arr.offsets) < arr.len + 1
                        THEN Panic(e1, "index out of range")
                        ELSE visitValues(e1, arr.children[1], values_offset,
                                         values_length, mustSlice, path)))

\* visit, lines 301-337
visitList(e, arr, path) == visitListValues(e, arr, path)

\* visit, lines 339-375
visitFixedSizeList(e, arr, path) == visitListValues(e, arr, path)

\* Mutant of depthExhausted: one level too many is let through.
depthExhaustedLate(e) == e.depth < 0

\* visit, lines 198-200: the depth budget is used up
depthExhausted(e) == e.depth <= 0

\* visit, lines 222-379: the switch on the data type
visitType(e, arr, path) ==
  CASE arr.type = "null" -> visitNull(e, arr, path)
    [] arr.type = "bool" -> visitBoolean(e, arr, path)
    [] arr.type \in FixedWidthTypes -> visitFixedWidth(e, arr, path)
    [] arr.type = "binary" -> visitBinary(e, arr, path)
    [] arr.type = "utf8" -> visitString(e, arr, path)
    [] arr.type = "struct" -> visitStruct(e, arr, path)
    [] arr.type = "list" -> visitList(e, arr, path)
    [] arr.type = "fixed_size_list" -> visitFixedSizeList(e, arr, path)
    [] OTHER -> Panic(e, "unknown array")

\* visit, lines 198-381, on the encoder w, array a and path p
visitNode(w, a, p) ==
  IF depthExhausted(w) THEN Fail(w, "errMaxRecursion")
  ELSE IF ~w.allow64b /\ a.len > MaxInt32 THEN Fail(w, "errBigArray")
  ELSE With(visitValidity(visitField(w, a, p), a, p),
            LAMBDA e1 : IF e1.status # "ok" THEN e1 ELSE visitType(e1, a, p))

\* visit (lines 197-382)
visit(e, arr, path) ==
  With(<<e, arr, path>>, LAMBDA x : visitNode(x[1], x[2], x[3]))

RECURSIVE visitColumns(_, _, _)
\* Encode, lines 159-164: the columns of the record from column i on
visitColumns(e, rec, i) ==
  IF i > Len(rec.columns) THEN e
  ELSE With(visit(e, rec.columns[i], <<i>>),
            LAMBDA e1 : IF e1.status # "ok" THEN e1
                        ELSE visitColumns(e1, rec, i + 1))

\* Mutant of bufferMeta: the padding aligns the end of the buffer in the
\* caller's address space rather than the buffer's length.
bufferMetaAbsolute(buf, offset) ==
  LET size == IF buf # NIL THEN BufLen(buf) ELSE 0
      padding == IF buf # NIL THEN CeilByte64(offset + size) - (offset + size) ELSE 0
  IN [Offset |-> offset, Len |-> size + padding]

\* Encode, lines 174-185: the bufferMetadata of one body entry at offset
bufferMeta(buf, offset) ==
  LET size == IF buf # NIL THEN BufLen(buf) ELSE 0
      padding == IF buf # NIL THEN CeilByte64(size) - size ELSE 0
  IN [Offset |-> offset, Len |-> size + padding]

\* Mutant of bufferMetas: the running offset is not advanced.
bufferMetasSameOffset(body, i, offset) ==
  [k \in 1 .. (Len(body) - i + 1) |-> bufferMeta(body[k + i - 1], offset)]

RECURSIVE bufferMetas(_, _, _)
\* Encode, lines 172-187: the bufferMetadata of body entries i.. from offset
bufferMetas(body, i, offset) ==
  IF i > Len(body) THEN <<>>
  ELSE With(bufferMeta(body[i], offset),
            LAMBDA m : <<m>> \o bufferMetas(body, i + 1, offset + m.Len))

\* Encode, line 189: the offset after the last body entry
endOffset(meta, start) ==
  IF meta = <<>> THEN start ELSE meta[Len(meta)].Offset + meta[Len(meta)].Len

\* writeRecordMessage: the record-batch header of the payload
writeRecordMessage(nrows, size, fields, meta) ==
  [nrows |-> nrows, size |-> size, fields |-> fields, meta |-> meta]

\* encodeMetadata (lines 396-399)
encodeMetadata(e, nrows) ==
  [e EXCEPT !.header = writeRecordMessage(nrows, e.size, e.fields, e.meta)]

\* Encode, lines 166-194: the second pass, over the body of encoder e1
encodeBody(e1, nrows) ==
  With(bufferMetas(e1.body, 1, e1.start),
       LAMBDA meta :
         With([e1 EXCEPT !.meta = meta, !.size = endOffset(meta, e1.start) - e1.start],
              LAMBDA e2 : IF ~IsMultipleOf8(e2.size) THEN Panic(e2, "not aligned")
                          ELSE encodeMetadata(e2, nrows)))

\* Encode (lines 156-195)
Encode(e, record) ==
  With(visitColumns(e, record, 1),
       LAMBDA e1 : IF e1.status # "ok" THEN e1 ELSE encodeBody(e1, record.nrows))

RECURSIVE releaseBody(_, _, _)
\* payload.Release: every non-nil body buffer from entry i on is released
releaseBody(refs, body, i) ==
  IF i > Len(body) THEN refs
  ELSE releaseBody(IF body[i] = NIL THEN refs
                   ELSE [refs EXCEPT ![body[i]] = @ - 1], body, i + 1)

\* ------------------------------------------------------------------ records

\* arrow.Schema: the types of the columns; isNil marks the nil *Schema.
SchemaOf(columns) ==
  [isNil |-> FALSE, fields |-> [i \in 1 .. Len(columns) |-> columns[i].type]]

NilSchema == [isNil |-> TRUE, fields |-> <<>>]

\* arrow.Schema.Equal: structural equality
SchemaEqual(a, b) == a.fields = b.fields

\* array.Record: Schema(), Columns(), NumRows().
Record(columns) ==
  [schema |-> SchemaOf(columns), columns |-> columns, nrows |-> columns[1].len]

\* A list whose offsets buffer is empty.
ListNoOffsets ==
  Arr("list", 0, 0, 0, <<BitmapBuf(0, 0), BufOfLen(0)>>,
      <<Leaf("int32", 0, 0, 0, 0)>>, <<>>)

\* Records of several columns.
WideRecords ==
  {Record(<<Leaf("int32", MaxRows, 0, 0, 0), Leaf("utf8", MaxRows, 1, 0, 0)>>),
   Record(<<Leaf("int32", 1, 0, 0, 0), Leaf("int32", 1, 0, 0, 0),
            Leaf("int32", 1, 1, 0, 0)>>),
   Record(<<Leaf("utf8", 1, 1, 0, 0), StructChain(kMaxNestingDepth, Leaf("int32", 1, 1, 0, 0))>>),
   Record(<<StructChain(kMaxNestingDepth - 1, Leaf("int32", 1, 1, 0, 0)),
            StructChain(1, Leaf("bool", 1, 1, 0, 0))>>),
   Record(<<Leaf("int32", 1, 0, 0, SlackBytes),
            StructChain(kMaxNestingDepth, Leaf("int32", 1, 1, 0, 0))>>)}

\* The records handed to an encoder.
EncRecords == {Record(<<a>>) : a \in Arrays \cup {ListNoOffsets}} \cup WideRecords

\* Base offsets an encoder is constructed with.
StartOffsets == {0, 3, kArrowAlignment}

\* Maximum depths an encoder is constructed with.
EncDepths == 0 .. kMaxNestingDepth

\* The records handed to Writer.Write: two that encode, one that panics on
\* an oversized value buffer, one nested beyond kMaxNestingDepth and one
\* within it, one without a schema and one that panics after a retain.
WriterRecords ==
  {Record(<<Leaf("int32", MaxRows, 0, 0, 0)>>),
   Record(<<Leaf("int32", 1, 1, 0, 0)>>),
   Record(<<Leaf("int32", 1, 0, 0, SlackBytes)>>),
   Record(<<Leaf("utf8", 1, 1, 0, 0),
            StructChain(kMaxNestingDepth, Leaf("int32", 1, 1, 0, 0))>>),
   Record(<<Leaf("utf8", 1, 1, 0, 0), StructChain(1, Leaf("bool", 1, 1, 0, 0))>>),
   [Record(<<Leaf("int32", MaxRows, 0, 0, 0)>>) EXCEPT !.schema = NilSchema],
   Record(<<Leaf("utf8", 1, 0, 0, SlackBytes)>>)}

\* The schemas a Writer is bound to.
WriterSchemas == {SchemaOf(<<Leaf("int32", 1, 0, 0, 0)>>),
                  SchemaOf(<<Leaf("utf8", 1, 0, 0, 0), StructOf(<<NullLeaf(0)>>, 0)>>)}

\* ------------------------------------------------------------------- Writer

\* What the sink holds of one payload: the message kind, whether all of its
\* bytes arrived, its header and its body buffers.
Payload(msg, header, body) ==
  [msg |-> msg, complete |-> TRUE, header |-> header, body |-> body]

\* payloadsFromSchema: the schema payload(s) of the stream
payloadsFromSchema(sch) == <<Payload("schema", [schema |-> sch.fields], <<>>)>>

\* kEOS, the end-of-stream marker
kEOS == Payload("eos", [eos |-> TRUE], <<>>)

\* payload{msg: MessageRecordBatch} as the encoder filled it (lines 107, 112)
RecordBatch(e) == Payload("batch", e.header, e.body)

\* The Writer during a call: its fields (closed is pw = nil), the sink and
\* the reference counts, the call's result so far, the sink write of this
\* call that is to fail (failAt, 0 for none; partial when some of its bytes
\* arrive) and what the call did.
WriterCall(s, c, sch, k, refs, failAt, partial) ==
  [started |-> s, closed |-> c, schema |-> sch, sink |-> k, refs |-> refs,
   result |-> "ok", failAt |-> failAt, partial |-> partial, sinkWrites |-> 0,
   failed |-> FALSE, schemaOk |-> FALSE, encStatus |-> "none", retains |-> 0]

\* swriter.write and swriter.Write (lines 42-54): the payload goes to the
\* sink, which takes all of it, or fails having taken none or part of it.
swriterWrite(w, p) ==
  IF w.failAt = w.sinkWrites + 1
  THEN [w EXCEPT !.sinkWrites = @ + 1, !.failed = TRUE, !.result = "errSink",
                 !.sink = IF w.partial THEN Append(@, [p EXCEPT !.complete = FALSE])
                          ELSE @]
  ELSE [w EXCEPT !.sinkWrites = @ + 1, !.sink = Append(@, p)]

\* w.pw.write(data) (lines 116 and 127): a method call on the nil interface
\* panics.
pwWrite(w, p) ==
  IF w.closed THEN [w EXCEPT !.result = "panic"] ELSE swriterWrite(w, p)

RECURSIVE writePayloads(_, _, _)
\* Writer.start, lines 126-131: the payloads ps from the i-th on
writePayloads(w, ps, i) ==
  IF i > Len(ps) THEN w
  ELSE With(pwWrite(w, ps[i]),
            LAMBDA w1 : IF w1.result # "ok" THEN w1 ELSE writePayloads(w1, ps, i + 1))

\* Mutant of markStarted: start does not set started.
markStartedNot(w) == w

\* Writer.start, line 120
markStarted(w) == [w EXCEPT !.started = TRUE]

\* Writer.start (lines 119-134)
WriterStart(w) == writePayloads(markStarted(w), payloadsFromSchema(w.schema), 1)

\* Mutant of deferRelease: the payload is released only after a successful
\* write, not by a deferred call.
deferReleaseOnSuccess(w, e) ==
  [w EXCEPT !.refs = IF w.result = "ok" THEN releaseBody(e.refs, e.body, 1)
                     ELSE e.refs]

\* Writer.Write, line 110: the deferred data.Release(), run however the
\* call ends, on the payload the encoder e filled
deferRelease(w, e) == [w EXCEPT !.refs = releaseBody(e.refs, e.body, 1)]

\* Writer.Write, lines 105-116: the record is encoded and its payload
\* written
encodeAndWrite(w, record) ==
  With(Encode(newRecordEncoder(w.refs, 0, kMaxNestingDepth, TRUE), record),
       LAMBDA e :
         With([w EXCEPT !.encStatus = e.status, !.retains = e.retains],
              LAMBDA w1 :
                IF e.status = "panic" THEN deferRelease([w1 EXCEPT !.result = "panic"], e)
                ELSE IF e.status # "ok"
                THEN deferRelease([w1 EXCEPT !.result = "errEncode"], e)
                ELSE deferRelease(pwWrite(w1, RecordBatch(e)), e)))

\* Writer.Write, lines 100-103
schemaConsistent(w, record) ==
  ~record.schema.isNil /\ SchemaEqual(record.schema, w.schema)

\* Writer.Write, lines 100-117: after the stream was started
writeStarted(w, record) ==
  IF ~schemaConsistent(w, record)
  THEN [w EXCEPT !.result = "errInconsistentSchema"]
  ELSE encodeAndWrite([w EXCEPT !.schemaOk = TRUE], record)

\* Writer.Write (lines 92-117)
WriterWrite(w, record) ==
  IF ~w.started
  THEN With(WriterStart(w),
            LAMBDA w1 : IF w1.result # "ok" THEN w1 ELSE writeStarted(w1, record))
  ELSE writeStarted(w, record)

\* Mutant of markClosed: Close leaves the payload writer in place.
markClosedNot(w) == w

\* Writer.Close, line 87
markClosed(w) == [w EXCEPT !.closed = TRUE]

\* swriter.Close (lines 37-40) and Writer.Close, lines 83-87
closePayloadWriter(w) ==
  With(swriterWrite(w, kEOS),
       LAMBDA w1 : IF w1.result # "ok" THEN [w1 EXCEPT !.result = "errClose"]
                   ELSE markClosed(w1))

\* Writer.Close (lines 78-90)
WriterClose(w) == IF w.closed THEN w ELSE closePayloadWriter(w)

\* -------------------------------------------------------------------- state

VARIABLES
  started,       \* Writer.started
  closed,        \* Writer.pw = nil
  schema,        \* Writer.schema
  sink,          \* the payloads the io.Writer has received
  refCount,      \* the reference count of every buffer
  calls,         \* the number of Write and Close calls made
  sinkFailures,  \* the number of sink writes that failed
  written,       \* the record-batch payloads of the successful Writes
  last,          \* the last call: its operation, inputs and result
  pre,           \* the Writer as it was when the last call began
  rec,           \* the record handed to the encoder
  enc,           \* the recordEncoder and the payload it fills
  encPhase       \* "input", "encoded", "released"; "idle" under Spec

vars ==
  <<started, closed, schema, sink, refCount, calls, sinkFailures, written,
    last, pre, rec, enc, encPhase>>

writerVars == <<started, closed, schema, sink, calls, sinkFailures, written, last, pre>>

encVars == <<rec, enc, encPhase>>

\* A call as last records it: the operation, its result, whether the
\* record had the bound schema (consistent) and is one Encode accepts
\* (encodes), what the encoder answered and how many buffers it retained,
\* and whether a sink write of the call failed.
Call(op, w, consistent, encodes) ==
  [op |-> op, result |-> w.result, consistent |-> consistent, encodes |-> encodes,
   encStatus |-> w.encStatus, retains |-> w.retains, failed |-> w.failed]

NoCall ==
  [op |-> "NewWriter", result |-> "ok", consistent |-> FALSE, encodes |-> FALSE,
   encStatus |-> "none", retains |-> 0, failed |-> FALSE]

Snapshot(s, c, k, r, l) ==
  [started |-> s, closed |-> c, sink |-> k, refCount |-> r, last |-> l]

\* ------------------------------------------------- the encoder on its own

\* Encode run on the record by a caller that holds the payload.
EncodeRecord ==
  /\ encPhase = "input"
  /\ \E e \in {Encode([enc EXCEPT !.refs = refCount], rec)} :
       /\ enc' = e
       /\ refCount' = e.refs
  /\ encPhase' = "encoded"
  /\ UNCHANGED <<writerVars, rec>>

\* The caller releases the payload (Write, line 110), whatever Encode did.
ReleasePayload ==
  /\ encPhase = "encoded"
  /\ refCount' = releaseBody(refCount, enc.body, 1)
  /\ enc' = [enc EXCEPT !.refs = refCount']
  /\ encPhase' = "released"
  /\ UNCHANGED <<writerVars, rec>>

\* A record and an encoder that are not used.
NoRecord == Record(<<NullLeaf(0)>>)

NoEncoder == newRecordEncoder(InitRefs, 0, 0, FALSE)

\* --------------------------------------------------------------- the Writer

\* The payload a successful Write of the record puts on the sink.
BatchEncoder(record) ==
  Encode(newRecordEncoder(InitRefs, 0, kMaxNestingDepth, TRUE), record)

BatchOf(record) == RecordBatch(BatchEncoder(record))

\* The sink writes of one call that may be made to fail: none, or the
\* first or second, with none or part of the bytes written.
Failures == {<<0, FALSE>>} \cup ((1 .. 2) \X BOOLEAN)

CanCall(f) ==
  /\ encPhase = "idle"
  /\ calls < MaxCalls
  /\ last.result # "panic"
  /\ f[1] > 0 => sinkFailures < MaxSinkFailures

\* The variables after a call that left the Writer as w.
Returned(w) ==
  /\ started' = w.started
  /\ closed' = w.closed
  /\ sink' = w.sink
  /\ refCount' = w.refs
  /\ calls' = calls + 1
  /\ sinkFailures' = IF w.failed THEN sinkFailures + 1 ELSE sinkFailures
  /\ pre' = Snapshot(started, closed, sink, refCount, last)
  /\ UNCHANGED <<schema, encVars>>

\* w.Write(record)
Write ==
  \E record \in WriterRecords, f \in Failures :
    /\ CanCall(f)
    /\ \E w \in {WriterWrite(WriterCall(started, closed, schema, sink, refCount,
                                        f[1], f[2]), record)} :
         /\ Returned(w)
         /\ last' = Call("Write", w,
                         ~record.schema.isNil /\ record.schema.fields = schema.fields,
                         BatchEncoder(record).status = "ok")
         /\ written' = IF w.result = "ok" THEN Append(written, BatchOf(record))
                        ELSE written

\* w.Close()
Close ==
  \E f \in Failures :
    /\ CanCall(f)
    /\ f[1] < 2
    /\ \E w \in {WriterClose(WriterCall(started, closed, schema, sink, refCount,
                                        f[1], f[2]))} :
         /\ Returned(w)
         /\ last' = Call("Close", w, FALSE, FALSE)
         /\ UNCHANGED written

\* NewWriter (lines 68-76) with a schema option: nothing is written.
Init ==
  /\ started = FALSE
  /\ closed = FALSE
  /\ schema \in WriterSchemas
  /\ sink = <<>>
  /\ refCount = InitRefs
  /\ calls = 0
  /\ sinkFailures = 0
  /\ written = <<>>
  /\ last = NoCall
  /\ pre = Snapshot(FALSE, FALSE, <<>>, InitRefs, NoCall)
  /\ rec = NoRecord
  /\ enc = NoEncoder
  /\ encPhase = "idle"

Next == Write \/ Close

Spec == Init /\ [][Next]_vars

WriterIdle ==
  /\ started = FALSE
  /\ closed = FALSE
  /\ schema = NilSchema
  /\ sink = <<>>
  /\ calls = 0
  /\ sinkFailures = 0
  /\ written = <<>>
  /\ last = NoCall
  /\ pre = Snapshot(FALSE, FALSE, <<>>, InitRefs, NoCall)

InitEnc ==
  /\ WriterIdle
  /\ refCount = InitRefs
  /\ rec \in EncRecords
  /\ \E startOffset \in StartOffsets, maxDepth \in EncDepths, allow64b \in BOOLEAN :
       enc = newRecordEncoder(InitRefs, startOffset, maxDepth, allow64b)
  /\ encPhase = "input"

NextEnc == EncodeRecord \/ ReleasePayload

SpecEnc == InitEnc /\ [][NextEnc]_vars

\* ------------------------------------------------------ claims on the Writer

\* The results with which Write returns to its caller.
WriteReturns == {"ok", "errInconsistentSchema", "errEncode", "errSink"}

\* The number of complete end-of-stream markers on the sink.
EosCount == Cardinality({i \in DOMAIN sink : sink[i] = kEOS})

\* C1: NewWriter writes nothing; the first successful Write leaves the schema
\* payload(s) followed by its record batch; and once Close has returned
\* (no sink write having failed) the sink holds the schema payload(s) once,
\* then the record batches of the successful Writes in call order, then
\* the end-of-stream marker.
C1_StreamFraming ==
  /\ calls = 0 => sink = <<>>
  /\ (last.op = "Write" /\ last.result = "ok" /\ ~pre.started /\ sinkFailures = 0)
       => sink = payloadsFromSchema(schema) \o written
  /\ (last.op = "Close" /\ last.result = "ok" /\ sinkFailures = 0)
       => sink = payloadsFromSchema(schema) \o written \o <<kEOS>>

\* C2: a Write that fails with InconsistentSchema, the first one included,
\* leaves the sink with the bytes it had before the call.
C2_InconsistentSchemaWritesNothing ==
  (last.op = "Write" /\ last.result = "errInconsistentSchema") => sink = pre.sink

\* C3: on every path by which Write returns (success, InconsistentSchema,
\* encode error, sink write error) every buffer's reference count is what
\* it was before the call, and no count ever falls below the hold of the
\* source arrays.
C3_WriteRestoresRefCounts ==
  /\ (last.op = "Write" /\ last.result \in WriteReturns) => refCount = pre.refCount
  /\ \A b \in Buffers : refCount[b] >= InitRefs[b]

\* A Write whose encoder retained buffers and then returned an error, with
\* the counts back.
C3_Witness ==
  /\ last.op = "Write"
  /\ last.result = "errEncode"
  /\ last.retains > 0
  /\ refCount = pre.refCount

\* C4: the first Close that succeeds appends the end-of-stream marker and
\* marks the Writer closed; every Close of a closed Writer returns success
\* and writes nothing; the sink of a closed Writer holds one end-of-stream
\* marker.
C4_CloseIdempotent ==
  /\ (last.op = "Close" /\ ~pre.closed /\ last.result = "ok")
       => closed /\ sink = Append(pre.sink, kEOS)
  /\ (last.op = "Close" /\ pre.closed)
       => last.result = "ok" /\ closed /\ sink = pre.sink
  /\ closed => EosCount = 1

\* A third call that is the second Close of a closed Writer.
C4_Witness ==
  /\ last.op = "Close"
  /\ pre.closed
  /\ pre.last.op = "Close"
  /\ EosCount = 1

\* C5: a Write on a closed Writer returns a failure to its caller and
\* appends nothing to the sink.
C5_WriteAfterCloseRejected ==
  (last.op = "Write" /\ pre.closed)
    => last.result \in (WriteReturns \ {"ok"}) /\ sink = pre.sink

\* C6: on a Writer that is not closed and whose sink has not failed, the
\* Write that follows one failed with InconsistentSchema, given a record of
\* the bound schema that Encode accepts, succeeds, and the sink then holds
\* the schema payload(s) once, followed by the record batches written.
C6_InconsistentSchemaRecoverable ==
  (/\ last.op = "Write"
   /\ pre.last.op = "Write"
   /\ pre.last.result = "errInconsistentSchema"
   /\ ~pre.closed
   /\ last.consistent
   /\ last.encodes
   /\ sinkFailures = 0)
    => /\ last.result = "ok"
       /\ written # <<>>
       /\ sink = payloadsFromSchema(schema) \o written

\* The second call succeeds after the first one failed with
\* InconsistentSchema.
C6_Witness ==
  /\ calls = 2
  /\ last.op = "Write"
  /\ last.result = "ok"
  /\ pre.last.op = "Write"
  /\ pre.last.result = "errInconsistentSchema"
  /\ Len(sink) = 2

\* ----------------------------------------------------- claims on the encoder

RECURSIVE SumLens(_, _)
\* The sum of the Len fields of the bufferMetadata from entry i on.
SumLens(meta, i) == IF i > Len(meta) THEN 0 ELSE meta[i].Len + SumLens(meta, i + 1)

\* The largest number of a set of naturals, 0 for the empty set.
SetMax(S) == With(S, LAMBDA T : IF T = {} THEN 0
                                ELSE CHOOSE m \in T : \A x \in T : x <= m)

RECURSIVE Height(_)
\* The number of array nodes on the longest path from the array down.
Height(arr) ==
  1 + SetMax({Height(arr.children[i]) : i \in DOMAIN arr.children})

\* The number of Struct, List and FixedSizeList levels of the record.
Nesting(record) ==
  SetMax({Height(record.columns[i]) : i \in DOMAIN record.columns}) - 1

RECURSIVE NoNulls(_)
\* No node of the array has a null.
NoNulls(arr) ==
  arr.nulls = 0 /\ \A i \in DOMAIN arr.children : NoNulls(arr.children[i])

RECURSIVE NodePaths(_, _)
RECURSIVE ChildPaths(_, _, _)
\* The paths of the nodes of the array at path, in pre-order.
NodePaths(arr, path) == <<path>> \o ChildPaths(arr.children, path, 1)

\* The paths of the nodes of the arrays kids[i..], children of path.
ChildPaths(kids, path, i) ==
  IF i > Len(kids) THEN <<>>
  ELSE NodePaths(kids[i], Append(path, i)) \o ChildPaths(kids, path, i + 1)

\* The buffers a node of the type adds after its validity entry.
OwnSlots(t) ==
  CASE t = "null" -> <<"placeholder">>
    [] t = "bool" -> <<"values">>
    [] t \in FixedWidthTypes -> <<"values">>
    [] t \in {"binary", "utf8"} -> <<"offsets", "values">>
    [] t = "struct" -> <<>>
    [] t \in ListTypes -> <<"offsets">>
    [] OTHER -> <<>>

RECURSIVE NodeLayout(_, _)
RECURSIVE ChildLayout(_, _, _)
\* The body entries of the array at path: its validity entry, its own
\* buffers, then those of its children.
NodeLayout(arr, path) ==
  <<[path |-> path, slot |-> "validity"]>>
    \o [i \in DOMAIN OwnSlots(arr.type) |-> [path |-> path, slot |-> OwnSlots(arr.type)[i]]]
    \o ChildLayout(arr.children, path, 1)

ChildLayout(kids, path, i) ==
  IF i > Len(kids) THEN <<>>
  ELSE NodeLayout(kids[i], Append(path, i)) \o ChildLayout(kids, path, i + 1)

\* The index in fields of the node a body entry was pushed for.
FieldOf(tag) == CHOOSE k \in DOMAIN enc.visited : enc.visited[k] = tag.path

Encoded == encPhase \in {"encoded", "released"}

\* C7: when Encode accepts the record, whatever the base offset, the body
\* size is a multiple of 8 and the sum of the Len fields of the
\* bufferMetadata, and Encode never panics with "not aligned".
C7_BodySizeAligned ==
  Encoded =>
    /\ enc.status = "ok" =>
         /\ IsMultipleOf8(enc.size)
         /\ enc.size = SumLens(enc.meta, 1)
         /\ enc.header.size = enc.size
    /\ ~(enc.status = "panic" /\ enc.msg = "not aligned")

\* An accepted record at a base offset that is no multiple of 8, with a
\* buffer whose length is no multiple of 8.
C7_Witness ==
  /\ encPhase = "encoded"
  /\ enc.status = "ok"
  /\ ~IsMultipleOf8(enc.start)
  /\ \E i \in DOMAIN enc.body : enc.body[i] # NIL /\ ~IsMultipleOf8(BufLen(enc.body[i]))
  /\ enc.size > 0

\* C8: the validity entry pushed for a node is the nil placeholder exactly
\* when the node's null count is 0, and a record without nulls has no
\* validity bitmap in its payload.
C8_ValidityAbsentIffNoNulls ==
  Encoded =>
    /\ \A i \in DOMAIN enc.tags :
         enc.tags[i].slot = "validity"
           => (enc.body[i] = NIL <=> enc.fields[FieldOf(enc.tags[i])].Nulls = 0)
    /\ (\A c \in DOMAIN rec.columns : NoNulls(rec.columns[c]))
         => \A i \in DOMAIN enc.tags :
              enc.tags[i].slot = "validity" => enc.body[i] = NIL

\* An accepted record with a validity bitmap and an absent one.
C8_Witness ==
  /\ encPhase = "encoded"
  /\ enc.status = "ok"
  /\ \E i, j \in DOMAIN enc.tags :
       /\ enc.tags[i].slot = "validity" /\ enc.body[i] # NIL
       /\ enc.tags[j].slot = "validity" /\ enc.body[j] = NIL

\* C9: after a successful Encode there is one fieldMetadata per array node
\* of the record, in pre-order, and the body holds, node by node in
\* pre-order, the validity entry and then the buffers of the node's type
\* (Null 1, Boolean 1, FixedWidth 1, Binary/String 2, Struct 0,
\* List/FixedSizeList 1), a node's entries before those of its children.
C9_FieldsAndBuffersPreOrder ==
  (Encoded /\ enc.status = "ok") =>
    /\ enc.visited = ChildPaths(rec.columns, <<>>, 1)
    /\ Len(enc.fields) = Len(enc.visited)
    /\ enc.tags = ChildLayout(rec.columns, <<>>, 1)
    /\ Len(enc.body) = Len(enc.tags)
    /\ Len(enc.meta) = Len(enc.body)

\* An accepted record with a list over a struct over a leaf.
C9_Witness ==
  /\ encPhase = "encoded"
  /\ enc.status = "ok"
  /\ rec.columns[1].type \in ListTypes
  /\ rec.columns[1].children[1].type = "struct"
  /\ Len(enc.fields) = 3

\* C10 as stated: with maximum depth D, a record with more than D
\* Struct/List/FixedSizeList levels fails with MaxRecursionExceeded, one
\* with at most D levels never does, and once the payload of the failed
\* encoding is released every reference count is what it was.
C10_DepthAsClaimed ==
  Encoded =>
    /\ Nesting(rec) > enc.maxDepth => enc.status = "errMaxRecursion"
    /\ Nesting(rec) <= enc.maxDepth => enc.status # "errMaxRecursion"
    /\ (encPhase = "released" /\ enc.status = "errMaxRecursion")
         => refCount = InitRefs

\* C10 with the bound the encoder draws: with maximum depth D, a record
\* with D or more Struct/List/FixedSizeList levels is never encoded: Encode fails with
\* MaxRecursionExceeded, unless the traversal stops before on a panic or
\* ArrayTooLarge; a record with fewer than D levels never raises
\* MaxRecursionExceeded; and once the payload of the failed encoding is
\* released every reference count is what it was.
C10_DepthExceeded ==
  Encoded =>
    /\ Nesting(rec) >= enc.maxDepth
         => enc.status \in {"errMaxRecursion", "errBigArray", "panic"}
    /\ Nesting(rec) < enc.maxDepth => enc.status # "errMaxRecursion"
    /\ (encPhase = "released" /\ enc.status = "errMaxRecursion")
         => refCount = InitRefs

\* A record nested to the maximum depth fails with MaxRecursionExceeded
\* after buffers were retained, and the counts are back after the release.
C10_Witness ==
  /\ encPhase = "released"
  /\ enc.status = "errMaxRecursion"
  /\ enc.maxDepth > 0
  /\ Nesting(rec) = enc.maxDepth
  /\ enc.retains > 0
  /\ refCount = InitRefs

\* C11: when Encode accepts a record of zero rows, every bufferMetadata
\* entry has Len 0 and the body size is 0.
C11_ZeroRowsEmptyBody ==
  (Encoded /\ enc.status = "ok" /\ rec.nrows = 0) =>
    /\ \A i \in DOMAIN enc.meta : enc.meta[i].Len = 0
    /\ enc.size = 0

\* The smallest multiple of 8 that is not below n.
RoundUp8(n) == CHOOSE m \in n .. (n + 7) : m % 8 = 0

RECURSIVE SumLensBefore(_, _)
\* The sum of the Len fields of the bufferMetadata entries before entry i.
SumLensBefore(meta, i) ==
  IF i <= 1 THEN 0 ELSE meta[i - 1].Len + SumLensBefore(meta, i - 1)

\* C12: after Encode has accepted a record there is one bufferMetadata per
\* body entry; entry i has as Offset the base offset plus the Len of the
\* entries before it, and as Len the byte length of body entry i rounded up
\* to a multiple of 8, 0 for a nil entry; the regions do not overlap and the
\* offsets do not decrease.
C12_BufferMetadataLayout ==
  (Encoded /\ enc.status = "ok") =>
    /\ Len(enc.meta) = Len(enc.body)
    /\ \A i \in DOMAIN enc.meta :
         /\ enc.meta[i].Offset = enc.start + SumLensBefore(enc.meta, i)
         /\ enc.meta[i].Len = IF enc.body[i] = NIL THEN 0
                              ELSE RoundUp8(BufLen(enc.body[i]))
    /\ \A i, j \in DOMAIN enc.meta :
         i < j => enc.meta[i].Offset + enc.meta[i].Len <= enc.meta[j].Offset

\* An accepted record at a base offset that is no multiple of 8 whose body
\* has a nil entry followed by two buffers, the first of a length that is
\* no multiple of 8.
C12_Witness ==
  /\ encPhase = "encoded"
  /\ enc.status = "ok"
  /\ enc.start = 3
  /\ \E i \in DOMAIN enc.body :
       /\ i + 2 \in DOMAIN enc.body
       /\ enc.body[i] = NIL
       /\ enc.body[i + 1] # NIL /\ ~IsMultipleOf8(BufLen(enc.body[i + 1]))
       /\ enc.body[i + 2] # NIL
       /\ enc.meta[i + 2].Offset > enc.meta[i + 1].Offset

\* C13: a validity bitmap pushed for a node with nulls is the array's own
\* buffer only when the array's physical offset is 0 and the buffer is no
\* longer than the padded ceil(length/8) bytes of the logical view; the
\* bitmap of an offset array, or an oversized one, is never pushed as it is.
C13_BitmapTruncationPolicy ==
  Encoded =>
    \A i \in DOMAIN enc.tags :
      (enc.tags[i].slot = "validity" /\ enc.body[i] # NIL)
        => /\ enc.phys[FieldOf(enc.tags[i])] = 0
           /\ BufLen(enc.body[i])
                <= RoundUp8((enc.fields[FieldOf(enc.tags[i])].Len + 7) \div 8)

\* C14: needTruncate is false for a nil buffer and otherwise true exactly
\* when the offset is not 0 or the buffer is longer than minLength; for the
\* value buffer of a FixedWidth, Binary or String node, when it is false the
\* buffer is retained once and that buffer is appended to the body, and
\* when it is true nothing is appended.
C14_NeedTruncate ==
  Encoded =>
    \A k \in DOMAIN enc.truncs :
      LET t == enc.truncs[k] IN
        /\ t.need <=> (t.buf # NIL /\ (t.offset # 0 \/ BufLen(t.buf) > t.minLength))
        /\ ~t.need => /\ t.retained = 1
                      /\ t.pushed # <<>>
                      /\ t.pushed[Len(t.pushed)] = t.buf
        /\ t.need => t.pushed = <<>>

RECURSIVE NodeAt(_, _)
\* The array at path below the arrays arrs.
NodeAt(arrs, path) ==
  IF Len(path) = 1 THEN arrs[path[1]]
  ELSE NodeAt(arrs[path[1]].children, Tail(path))

\* C15: getZeroBasedValueOffsets on an array at physical offset 0 that has
\* an offsets buffer retains that buffer once and returns it; on an array
\* at another offset it ends in the "not implemented" failure; and no
\* offsets buffer whose first offset is not 0 is appended to a payload.
C15_ZeroBasedValueOffsets ==
  Encoded =>
    /\ \A k \in DOMAIN enc.zeroBased :
         LET z == enc.zeroBased[k] IN
           /\ (z.offset = 0 /\ z.input # NIL)
                => z.returned = z.input /\ z.retained = 1 /\ z.status = "ok"
           /\ z.offset # 0
                => /\ z.status = "panic" /\ z.msg = "not implemented offset"
                   /\ z.retained = 0
    /\ \A i \in DOMAIN enc.tags :
         (enc.tags[i].slot = "offsets" /\ enc.body[i] # NIL)
           => LET a == NodeAt(rec.columns, enc.tags[i].path)
              IN a.offsets # <<>> => a.offsets[1] = 0

\* The number of times x occurs in the sequence seq.
Count(seq, x) == Cardinality({i \in DOMAIN seq : seq[i] = x})

\* C16: once Encode has ended, however it ended, every child slice a List
\* or FixedSizeList node made has been released exactly once, and no child
\* that was visited without being sliced has been released.
C16_ChildSliceReleased ==
  Encoded =>
    /\ \A i \in DOMAIN enc.slicesMade :
         Count(enc.slicesReleased, enc.slicesMade[i]) = 1
    /\ \A i \in DOMAIN enc.slicesReleased :
         Count(enc.slicesMade, enc.slicesReleased[i]) = 1
    /\ \A i \in DOMAIN enc.unsliced :
         Count(enc.slicesReleased, enc.unsliced[i]) = 0

\* An encoding that failed below two child slices, both released.
C16_Witness ==
  /\ encPhase = "encoded"
  /\ enc.status \in {"errMaxRecursion", "panic"}
  /\ Len(enc.slicesMade) >= 2
  /\ Len(enc.slicesReleased) = Len(enc.slicesMade)

\* C17: every node is visited with the maximum depth less the number of
\* Struct, List and FixedSizeList nodes above it, so that every column is
\* visited with the full maximum depth whatever the columns before it,
\* and after a successful Encode the budget is the maximum depth again.
C17_DepthBudgetRestored ==
  Encoded =>
    /\ Len(enc.depths) = Len(enc.visited)
    /\ \A k \in DOMAIN enc.visited :
         enc.depths[k] = enc.maxDepth - (Len(enc.visited[k]) - 1)
    /\ enc.status = "ok" => enc.depth = enc.maxDepth

\* An accepted record whose second column is visited after a first column
\* two levels deep.
C17_Witness ==
  /\ encPhase = "encoded"
  /\ enc.status = "ok"
  /\ \E j, k \in DOMAIN enc.visited :
       /\ j < k
       /\ Len(enc.visited[j]) = 3
       /\ enc.visited[k] = <<2>>
       /\ enc.depths[k] = enc.maxDepth

\* C18: however Encode ended, on an error return or a panic included, every
\* Retain it made is on a buffer that is in the payload body, so that the
\* release of the payload brings every reference count back to what it
\* was before Encode.
C18_RetainsRecordedInPayload ==
  /\ Encoded => enc.retains = Cardinality({i \in DOMAIN enc.body : enc.body[i] # NIL})
  /\ encPhase = "released" => refCount = InitRefs

\* The schema payload is on the sink, first and complete.
SchemaWritten ==
  /\ sink # <<>>
  /\ sink[1] = payloadsFromSchema(schema)[1]

\* C19: in every state of a Writer a record batch is on the sink only
\* after the complete schema payload(s), and a Close that follows a Write,
\* failed or not, puts the end-of-stream marker only after them.
C19_BatchOnlyAfterSchema ==
  /\ (\E i \in DOMAIN sink : sink[i].msg = "batch") => SchemaWritten
  /\ (last.op = "Close" /\ pre.started /\ sink # pre.sink) => SchemaWritten

====
